---- MODULE Spec2Model ----
(***************************************************************************)
(* Number-rental lifecycle of the wpotp backend (api/index.js): the wallet *)
(* ledger (deductBalance, refundBalance), the commission calculation and   *)
(* the three rental handlers GET /api/getNumber, /api/getOtp and           *)
(* /api/cancelNumber, against the Firebase realtime database and the       *)
(* numbering provider.                                                     *)
(*                                                                         *)
(* Every handler is an async function: each awaited database operation or  *)
(* provider call is one step of the request, and steps of different        *)
(* requests interleave freely.  A step applies the awaited operation and   *)
(* runs the handler's synchronous code up to the next await.               *)
(***************************************************************************)
EXTENDS Integers, Sequences, FiniteSets, Bags, TLC

VARIABLES
  wallet,        \* users/<uid>/wallet
  apiRequests,   \* users/<uid>/apiRequests
  apiSuccess,    \* users/<uid>/apiSuccess
  apiFailed,     \* users/<uid>/apiFailed
  totalSpent,    \* users/<uid>/totalSpent
  referredBy,    \* users/<uid>/referredBy
  active,        \* activeTransactions/<uid>  (single slot per account)
  history,       \* userHistory/<uid>         (push keys in creation order)
  resellers,     \* resellers/<resellerId>
  resellerSales, \* resellerSales/<resellerId>/<saleId>
  issued,        \* provider: number of transactions issued so far
  sms,           \* provider: digits of the code received per transaction (0: none)
  provCancelled, \* provider: transactions cancelled by setStatus
  now,           \* Date.now()
  ticks,         \* number of clock advances so far
  started,       \* number of requests received so far
  req,           \* the requests in flight: position and local variables
  cur,           \* the request that ran the last step, while it is unfinished
  preempts,      \* how often a request ran while another was in mid-step sequence
  budget,        \* how many such preemptions the schedule may contain
  wallet0,       \* history variable: wallet at start
  debitSum,      \* history variable: sum of the amounts deductBalance returned for
  refundSum,     \* history variable: sum of the amounts refundBalance returned for
  acquired,      \* history variable: per transaction id, wallet before and amount debited
  terminated,    \* history variable: ids whose terminal request has completed
  apiKey,        \* users/<uid>/apiKey
  keysMade,      \* number of keys generated so far
  apiKeyLogs,    \* apiKeyLogs/<uid>         (push keys in creation order)
  userResellerId, \* users/<uid>/resellerId
  acct,          \* the account requests in flight
  acctStarted,   \* number of account requests received so far
  transactions,  \* transactions/<uid>       (push keys in creation order)
  creditSum,     \* history variable: sum of the amounts addBalance has set
  purged         \* history variable: accounts whose removeUser has completed

vars == <<wallet, apiRequests, apiSuccess, apiFailed, totalSpent, referredBy,
          active, history, resellers, resellerSales, issued, sms, provCancelled,
          now, ticks, started, req, cur, preempts, budget,
          wallet0, debitSum, refundSum, acquired, terminated,
          apiKey, keysMade, apiKeyLogs, userResellerId, acct, acctStarted,
          transactions, creditSum, purged>>

dbVars == <<wallet, apiRequests, apiSuccess, apiFailed, totalSpent, referredBy,
            active, history, resellers, resellerSales>>
provVars == <<issued, sms, provCancelled>>
clockVars == <<now, ticks>>
ghostVars == <<wallet0, debitSum, refundSum, acquired, terminated>>
acctVars == <<apiKey, keysMade, apiKeyLogs, userResellerId, acct, acctStarted>>
adminVars == <<transactions, creditSum, purged>>

----------------------------------------------------------------------------
(* Bounds of the exploration.                                              *)
MaxRequests == 3   \* requests received in one behaviour
MaxTxn == 2        \* transactions the provider issues in one behaviour
MaxTicks == 2      \* clock advances in one behaviour
MaxPreempts == 1   \* preemptions of an unfinished request in one behaviour

Users == {"u1"}
InitWallets == {155}

(* The 15-minute window, in milliseconds.                                  *)
TTL == 15 * 60 * 1000
(* Length of the digit run the OTP pattern accepts.                        *)
OtpDigits == 6
(* The clock is observed at the granularity of one window.                 *)
ClockSteps == {TTL}

NoRef == "none"
NoTxn == [id |-> "none", price |-> 0, basePrice |-> 0, commission |-> 0,
          resellerId |-> NoRef, startTime |-> 0, expiresAt |-> 0]
NoReseller == [userId |-> "none", status |-> "none",
               commissionPercent |-> 0, wallet |-> 0,
               totalSales |-> 0, totalCommission |-> 0, referralCount |-> 0,
               exists |-> FALSE]

(* const countries = {...}: service key -> base price.                     *)
countries ==
  [c \in {"philippines_51", "india_115", "vietnam_118", "india_66",
          "fire_premium_106", "southafrica_52", "colombia_53",
          "philippines2_117", "indonesia_54", "telegram_usa_123",
          "telegram_usa2_124"} |->
     CASE c = "philippines_51" -> 52
       [] c = "india_115" -> 103
       [] c = "vietnam_118" -> 61
       [] c = "india_66" -> 140
       [] c = "fire_premium_106" -> 79
       [] c = "southafrica_52" -> 45
       [] c = "colombia_53" -> 71
       [] c = "philippines2_117" -> 64
       [] c = "indonesia_54" -> 49
       [] c = "telegram_usa_123" -> 65
       [] c = "telegram_usa2_124" -> 92]

(* The services, referral codes and transaction ids the requests name.     *)
RequestedCountries == {"philippines_51", "india_115", "nosuch"}
ResellerIds == {"RS1", "RS2"}
RefCodes == {NoRef} \cup ResellerIds

----------------------------------------------------------------------------
(* Variant: halves are rounded down.                                       *)
MathRound_HalfDown(n, d) == (2 * n + d - 1) \div (2 * d)

(* Math.round: the nearest integer, halves rounded up (n, d >= 0, d > 0).  *)
MathRound(n, d) == (2 * n + d) \div (2 * d)

calculatePriceWithCommission(basePrice, commissionPercent) ==
  basePrice + MathRound(basePrice * commissionPercent, 100)

(* The provider's getNumber answers, as the fields between the colons.     *)
IdOf(i) == ToString(i)
TxnOf(id) == CHOOSE i \in 1..issued : IdOf(i) = id
IssuedIds == {IdOf(i) : i \in 1..issued}

NumberAnswer(i) == <<"ACCESS_NUMBER", IdOf(i), "PHONE">>
ExtraFieldAnswer(i) == <<"ACCESS_NUMBER", IdOf(i), "PHONE", "EXTRA">>
FailureAnswers == {<<"NO_NUMBERS">>, <<"NO_BALANCE">>, <<"BAD_KEY">>,
                   <<"ACCESS_NUMBER">>}

(* data.includes(tok): the token occurs somewhere in the answer.           *)
Includes(data, tok) == \E i \in 1..Len(data) : data[i] = tok

(* getNumber's test of the provider answer, api/index.js.                  *)
Recognised(data) == Includes(data, "ACCESS_NUMBER") /\ Len(data) >= 3

(* The documented success line ACCESS_NUMBER:<txnId>:<phone>.              *)
SuccessFormat(data) == Len(data) = 3 /\ data[1] = "ACCESS_NUMBER"

(* The provider's getStatus answer, as its words and runs of digits:      *)
(* STATUS_WAIT_CODE, or STATUS_OK:<code> for a code of n digits.           *)
StatusText(n) ==
  IF n = 0 THEN <<[kind |-> "word", len |-> 16]>>
  ELSE <<[kind |-> "word", len |-> 9], [kind |-> "digits", len |-> n]>>

(* What the provider may hold for transaction i when it is next asked: the *)
(* code it already has, or one that has come in since the last call.       *)
SmsLengths == {5, 6}
CodesNow(i) == IF sms[i] # 0 THEN {sms[i]} ELSE {0} \cup SmsLengths

(* Variant: the pattern accepts runs of four digits only.                 *)
OtpMatch_FourDigits(data) ==
  \E i \in 1..Len(data) : data[i].kind = "digits" /\ data[i].len = 4

(* data.match(/\b\d{6}\b/): a whole run of exactly six digits.             *)
OtpMatch(data) ==
  \E i \in 1..Len(data) : data[i].kind = "digits" /\ data[i].len = OtpDigits

(* orderByChild('transactionId').equalTo(id), Object.keys(...)[0]: the     *)
(* first key of the matching history records, 0 when there is none.        *)
HistoryKey(h, id) ==
  IF \E k \in 1..Len(h) : h[k].transactionId = id
  THEN CHOOSE k \in 1..Len(h) :
         /\ h[k].transactionId = id
         /\ \A j \in 1..(k - 1) : h[j].transactionId # id
  ELSE 0

Idle == [kind |-> "idle", pc |-> "idle", uid |-> "none", id |-> "none",
         country |-> "none", userWallet |-> 0, userReferredBy |-> NoRef,
         referralCode |-> NoRef, finalPrice |-> 0, commission |-> 0,
         resellerId |-> NoRef, data |-> <<>>, tmp |-> 0, txn |-> NoTxn,
         timeElapsed |-> 0, key |-> 0, reseller |-> NoReseller,
         result |-> "none",
         wrote |-> {}, debited |-> 0, credited |-> 0, afterTerminal |-> FALSE,
         held |-> FALSE, earned |-> 0, timeLeft |-> 0]

InFlight == BagToSet(req)

(* The event loop runs one request until its next await; resuming another *)
(* request than the one that ran last, while that one is unfinished, is a  *)
(* preemption.                                                             *)
(* A finished request is answered before anything else happens.           *)
NoReq == [Idle EXCEPT !.kind = "none"]
NoneDone == \A q \in InFlight : q.pc # "done"
Sched(p) == NoneDone /\ (cur = NoReq \/ cur = p \/ preempts < budget)
Preempted(p) == IF cur # NoReq /\ cur # p THEN preempts + 1 ELSE preempts

CanStart ==
  /\ started < MaxRequests
  /\ Sched(NoReq)

Launch(r) ==
  /\ req' = req (+) SetToBag({r})
  /\ cur' = r
  /\ preempts' = IF cur # NoReq THEN preempts + 1 ELSE preempts
Set(p, r) ==
  /\ req' = (req (-) SetToBag({p})) (+) SetToBag({r})
  /\ cur' = r
  /\ preempts' = Preempted(p)
Done(r, res) == [r EXCEPT !.pc = "done", !.result = res, !.tmp = 0, !.key = 0]
At(p, kind, pc) == p.kind = kind /\ p.pc = pc /\ Sched(p)

----------------------------------------------------------------------------
(* Variant: deductBalance without its own balance check.                  *)
InsufficientBalance_NoCheck(balance, amount) == FALSE

(* deductBalance's guard: throw when the balance read is below the amount. *)
InsufficientBalance(balance, amount) == balance < amount

(* Variant: the wallet is debited before the provider is asked.           *)
CheckFunds_DebitFirst(r) ==
  IF r.userWallet < r.finalPrice THEN Done(r, "http402")
  ELSE [r EXCEPT !.pc = "db_readWallet"]

(* Variant: the funds check compares with the base price.                 *)
CheckFunds_BasePrice(r) ==
  IF r.userWallet < countries[r.country] THEN Done(r, "http402")
  ELSE [r EXCEPT !.pc = "gn_provider"]

(* getNumber's funds check on the loaded account, then the provider call.  *)
CheckFunds(r) ==
  IF r.userWallet < r.finalPrice THEN Done(r, "http402")
  ELSE [r EXCEPT !.pc = "gn_provider"]

(* GET /api/getNumber: the account is loaded, the service looked up and    *)
(* the referral code chosen (query ref, stored referrer, referer header).  *)
StartGetNumber(u, country, ref, referer) ==
  /\ CanStart
  /\ started' = started + 1
  /\ LET code == IF ref # NoRef THEN ref
                 ELSE IF referredBy[u] # NoRef THEN referredBy[u]
                 ELSE referer
         r0 == [Idle EXCEPT !.kind = "getNumber", !.uid = u,
                            !.country = country,
                            !.held = (active[u] # NoTxn),
                            !.userWallet = wallet[u],
                            !.userReferredBy = referredBy[u]]
     IN IF country \notin DOMAIN countries
        THEN Launch(Done(r0, "http400"))
        ELSE LET r1 == [r0 EXCEPT !.finalPrice = countries[country],
                                  !.referralCode = code]
             IN IF code # NoRef
                THEN Launch([r1 EXCEPT !.pc = "gn_getReseller"])
                ELSE Launch(CheckFunds(r1))
  /\ UNCHANGED <<dbVars, provVars, clockVars, budget, acctVars, adminVars, ghostVars>>

(* Variant: an unknown code is charged the default markup.                *)
GetNumberReseller_DefaultMarkup(p) ==
  /\ At(p, "getNumber", "gn_getReseller")
  /\ LET r == p
         found == r.referralCode \in DOMAIN resellers
                    /\ resellers[r.referralCode].exists
         pct == IF resellers[r.referralCode].commissionPercent # 0
                THEN resellers[r.referralCode].commissionPercent ELSE 15
         fp == calculatePriceWithCommission(countries[r.country], pct)
         r1 == [r EXCEPT !.finalPrice = fp,
                         !.commission = fp - countries[r.country],
                         !.resellerId = r.referralCode]
     IN IF ~found
        THEN Set(p, CheckFunds([r EXCEPT
               !.finalPrice =
                  calculatePriceWithCommission(countries[r.country], 15)]))
        ELSE IF r.userReferredBy = NoRef
             THEN Set(p, [r1 EXCEPT !.pc = "gn_saveRef"])
             ELSE Set(p, CheckFunds(r1))
  /\ UNCHANGED <<dbVars, provVars, clockVars, started, budget, acctVars, adminVars, ghostVars>>

(* getReseller(referralCode), then the marked-up price.                    *)
GetNumberReseller(p) ==
  /\ At(p, "getNumber", "gn_getReseller")
  /\ LET r == p
         found == r.referralCode \in DOMAIN resellers
                    /\ resellers[r.referralCode].exists
         pct == IF resellers[r.referralCode].commissionPercent # 0
                THEN resellers[r.referralCode].commissionPercent ELSE 15
         fp == calculatePriceWithCommission(countries[r.country], pct)
         r1 == [r EXCEPT !.finalPrice = fp,
                         !.commission = fp - countries[r.country],
                         !.resellerId = r.referralCode]
     IN IF ~found THEN Set(p, CheckFunds(r))
        ELSE IF r.userReferredBy = NoRef
             THEN Set(p, [r1 EXCEPT !.pc = "gn_saveRef"])
             ELSE Set(p, CheckFunds(r1))
  /\ UNCHANGED <<dbVars, provVars, clockVars, started, budget, acctVars, adminVars, ghostVars>>

(* users/<uid>/referredBy.set(referralCode)                                *)
GetNumberSaveRef(p) ==
  /\ At(p, "getNumber", "gn_saveRef")
  /\ LET r == p
     IN /\ referredBy' = [referredBy EXCEPT ![r.uid] = r.referralCode]
        /\ Set(p, CheckFunds([r EXCEPT !.wrote = @ \cup {"referredBy"}]))
  /\ UNCHANGED <<wallet, apiRequests, apiSuccess, apiFailed, totalSpent,
                 active, history, resellers, resellerSales,
                 provVars, clockVars, started, budget, acctVars, adminVars, ghostVars>>

(* axios.get(getNumber): the provider answers, or the call times out.      *)
ProviderAnswers ==
  FailureAnswers \cup
    (IF issued < MaxTxn
     THEN {NumberAnswer(issued + 1), ExtraFieldAnswer(issued + 1)} ELSE {})

GetNumberProviderTimeout(p) ==
  /\ At(p, "getNumber", "gn_provider")
  /\ Set(p, Done(p, "http500"))
  /\ UNCHANGED <<dbVars, provVars, clockVars, started, budget, acctVars, adminVars, ghostVars>>

GetNumberProvider(p) ==
  /\ At(p, "getNumber", "gn_provider")
  /\ \E data \in ProviderAnswers :
       LET r == [p EXCEPT !.data = data]
       IN /\ issued' = IF data \in FailureAnswers THEN issued ELSE issued + 1
          /\ IF Recognised(data)
             THEN Set(p, [r EXCEPT !.id = data[2], !.pc = "db_readWallet"])
             ELSE Set(p, Done(r, "fail"))
  /\ UNCHANGED <<dbVars, sms, provCancelled, clockVars, started, budget, acctVars, adminVars,
                 ghostVars>>

----------------------------------------------------------------------------
(* deductBalance(uid, finalPrice): wallet read and check, wallet write,    *)
(* then a read and a write for each of apiRequests, apiSuccess and         *)
(* totalSpent.  A write and the read that follows it address different     *)
(* paths and are taken as one step.                                        *)
DeductReadWallet(p) ==
  /\ At(p, "getNumber", "db_readWallet")
  /\ LET r == p
         balance == wallet[r.uid]
     IN IF InsufficientBalance(balance, r.finalPrice)
        THEN Set(p, Done(r, "http500"))
        ELSE Set(p, [r EXCEPT !.tmp = balance - r.finalPrice,
                              !.pc = "db_writeWallet"])
  /\ UNCHANGED <<dbVars, provVars, clockVars, started, budget, acctVars, adminVars, ghostVars>>

DeductWriteWallet(p) ==
  /\ At(p, "getNumber", "db_writeWallet")
  /\ wallet' = [wallet EXCEPT ![p.uid] = p.tmp]
  /\ Set(p, [p EXCEPT !.tmp = apiRequests[p.uid] + 1,
                      !.pc = "db_writeRequests",
                      !.wrote = @ \cup {"wallet"}])
  /\ UNCHANGED <<apiRequests, apiSuccess, apiFailed, totalSpent, referredBy,
                 active, history, resellers, resellerSales,
                 provVars, clockVars, started, budget, acctVars, adminVars, ghostVars>>

(* Variant: the request counter is raised by two.                         *)
DeductWriteRequests_ByTwo(p) ==
  /\ At(p, "getNumber", "db_writeRequests")
  /\ apiRequests' = [apiRequests EXCEPT ![p.uid] = p.tmp + 1]
  /\ Set(p, [p EXCEPT !.tmp = apiSuccess[p.uid] + 1,
                      !.pc = "db_writeSuccess",
                      !.wrote = @ \cup {"counters"}])
  /\ UNCHANGED <<wallet, apiSuccess, apiFailed, totalSpent, referredBy,
                 active, history, resellers, resellerSales,
                 provVars, clockVars, started, budget, acctVars, adminVars, ghostVars>>

DeductWriteRequests(p) ==
  /\ At(p, "getNumber", "db_writeRequests")
  /\ apiRequests' = [apiRequests EXCEPT ![p.uid] = p.tmp]
  /\ Set(p, [p EXCEPT !.tmp = apiSuccess[p.uid] + 1,
                      !.pc = "db_writeSuccess",
                      !.wrote = @ \cup {"counters"}])
  /\ UNCHANGED <<wallet, apiSuccess, apiFailed, totalSpent, referredBy,
                 active, history, resellers, resellerSales,
                 provVars, clockVars, started, budget, acctVars, adminVars, ghostVars>>

DeductWriteSuccess(p) ==
  /\ At(p, "getNumber", "db_writeSuccess")
  /\ apiSuccess' = [apiSuccess EXCEPT ![p.uid] = p.tmp]
  /\ Set(p, [p EXCEPT !.tmp = totalSpent[p.uid] + p.finalPrice,
                      !.pc = "db_writeSpent"])
  /\ UNCHANGED <<wallet, apiRequests, apiFailed, totalSpent, referredBy,
                 active, history, resellers, resellerSales,
                 provVars, clockVars, started, budget, acctVars, adminVars, ghostVars>>

(* The last write of deductBalance; getNumber then builds the slot value   *)
(* (startTime: Date.now()) and issues activeRef.set.                       *)
DeductWriteSpent(p) ==
  /\ At(p, "getNumber", "db_writeSpent")
  /\ LET r == p
     IN /\ totalSpent' = [totalSpent EXCEPT ![r.uid] = r.tmp]
        /\ debitSum' = [debitSum EXCEPT ![r.uid] = @ + r.finalPrice]
        /\ acquired' = (r.id :> [uid |-> r.uid, before |-> r.userWallet,
                                 debited |-> r.finalPrice,
                                 debitsBefore |-> debitSum[r.uid],
                                 refundsBefore |-> refundSum[r.uid],
                                 refunded |-> 0]) @@ acquired
        /\ Set(p, [r EXCEPT !.tmp = 0, !.pc = "gn_setActive",
                            !.debited = r.finalPrice, !.data = <<>>,
                            !.txn = [id |-> r.id, price |-> r.finalPrice,
                                     basePrice |-> countries[r.country],
                                     commission |-> r.commission,
                                     resellerId |-> r.resellerId,
                                     startTime |-> now,
                                     expiresAt |-> now + TTL]])
  /\ UNCHANGED <<wallet, apiRequests, apiSuccess, apiFailed, referredBy,
                 active, history, resellers, resellerSales,
                 provVars, clockVars, started, budget, acctVars, adminVars,
                 wallet0, refundSum, terminated>>

(* activeTransactions/<uid>.set({...})                                     *)
GetNumberSetActive(p) ==
  /\ At(p, "getNumber", "gn_setActive")
  /\ LET r == p
     IN /\ active' = [active EXCEPT ![r.uid] = r.txn]
        /\ Set(p, [r EXCEPT !.pc = "gn_pushHistory",
                            !.wrote = @ \cup {"slot"}])
  /\ UNCHANGED <<wallet, apiRequests, apiSuccess, apiFailed, totalSpent,
                 referredBy, history, resellers, resellerSales,
                 provVars, clockVars, started, budget, acctVars, adminVars, ghostVars>>

(* activeRef.set is rejected by the database: the handler's catch block    *)
(* answers 500.                                                            *)
GetNumberSetActiveFails(p) ==
  /\ At(p, "getNumber", "gn_setActive")
  /\ Set(p, Done(p, "http500"))
  /\ UNCHANGED <<dbVars, provVars, clockVars, started, budget, acctVars, adminVars, ghostVars>>

(* userHistory/<uid>.push().set({... status: 'active' ...}); with a        *)
(* commission, updateResellerStats then reads the reseller record.         *)
GetNumberPushHistory(p) ==
  /\ At(p, "getNumber", "gn_pushHistory")
  /\ LET rec == [transactionId |-> p.id, price |-> p.finalPrice,
                 commission |-> p.commission, resellerId |-> p.resellerId,
                 status |-> "active", otp |-> 0, refundAmount |-> 0]
         r == [p EXCEPT !.wrote = @ \cup {"history"}]
     IN /\ history' = [history EXCEPT ![p.uid] = Append(@, rec)]
        /\ IF p.commission > 0 /\ p.resellerId # NoRef
           THEN Set(p, [r EXCEPT !.reseller = resellers[p.resellerId],
                                 !.pc = "ur_write"])
           ELSE Set(p, Done(r, "ok"))
  /\ UNCHANGED <<wallet, apiRequests, apiSuccess, apiFailed, totalSpent,
                 referredBy, active, resellers, resellerSales,
                 provVars, clockVars, started, budget, acctVars, adminVars, ghostVars>>

(* Variant: the partner is credited the whole sale price.                 *)
ResellerStatsWrite_FullPrice(p) ==
  /\ At(p, "getNumber", "ur_write")
  /\ LET r == p
         rs == r.reseller
     IN /\ resellers' = [resellers EXCEPT ![r.resellerId] =
             [@ EXCEPT !.wallet = rs.wallet + r.finalPrice,
                       !.totalSales = rs.totalSales + r.finalPrice,
                       !.totalCommission = rs.totalCommission + r.commission,
                       !.referralCount = rs.referralCount + 1]]
        /\ Set(p, [r EXCEPT !.reseller = NoReseller, !.key = now,
                            !.pc = "gn_saleSet",
                            !.earned = rs.wallet + r.finalPrice
                                         - resellers[r.resellerId].wallet,
                            !.wrote = @ \cup {"reseller"}])
  /\ UNCHANGED <<wallet, apiRequests, apiSuccess, apiFailed, totalSpent,
                 referredBy, active, history, resellerSales,
                 provVars, clockVars, started, budget, acctVars, adminVars, ghostVars>>

(* resellerRef.update(updates); getNumber then names the sale              *)
(* 'SALE' + Date.now() and issues saleRef.set.                             *)
ResellerStatsWrite(p) ==
  /\ At(p, "getNumber", "ur_write")
  /\ LET r == p
         rs == r.reseller
     IN /\ resellers' = [resellers EXCEPT ![r.resellerId] =
             [@ EXCEPT !.wallet = rs.wallet + r.commission,
                       !.totalSales = rs.totalSales + r.finalPrice,
                       !.totalCommission = rs.totalCommission + r.commission,
                       !.referralCount = rs.referralCount + 1]]
        /\ Set(p, [r EXCEPT !.reseller = NoReseller, !.key = now,
                            !.pc = "gn_saleSet",
                            !.earned = rs.wallet + r.commission
                                         - resellers[r.resellerId].wallet,
                            !.wrote = @ \cup {"reseller"}])
  /\ UNCHANGED <<wallet, apiRequests, apiSuccess, apiFailed, totalSpent,
                 referredBy, active, history, resellerSales,
                 provVars, clockVars, started, budget, acctVars, adminVars, ghostVars>>

(* resellerSales/<resellerId>/<saleId>.set({...})                          *)
GetNumberSaleSet(p) ==
  /\ At(p, "getNumber", "gn_saleSet")
  /\ LET r == p
         sale == [userId |-> r.uid, amount |-> r.finalPrice,
                  commission |-> r.commission, transactionId |-> r.id]
     IN /\ resellerSales' = [resellerSales EXCEPT ![r.resellerId] =
                               (r.key :> sale) @@ @]
        /\ Set(p, Done([r EXCEPT !.wrote = @ \cup {"sales"}], "ok"))
  /\ UNCHANGED <<wallet, apiRequests, apiSuccess, apiFailed, totalSpent,
                 referredBy, active, history, resellers,
                 provVars, clockVars, started, budget, acctVars, adminVars, ghostVars>>

----------------------------------------------------------------------------
(* Variant: the whole window is reported as remaining.                    *)
TimeLeft_FullWindow(timeElapsed) == TTL \div 1000

(* timeLeft of getOtp's answer, in seconds:                                *)
(* Math.max(0, (15 * 60 * 1000 - timeElapsed) / 1000).                     *)
TimeLeft(timeElapsed) ==
  IF TTL - timeElapsed > 0 THEN (TTL - timeElapsed) \div 1000 ELSE 0

(* Variant: getOtp expires a rental after two windows.                    *)
PollExpired_TwoWindows(timeElapsed) == timeElapsed > 2 * TTL

(* The expiry test of getOtp.                                              *)
PollExpired(timeElapsed) == timeElapsed > TTL

(* Variant: cancelNumber never takes the expiry path.                     *)
CancelExpired_Never(timeElapsed) == FALSE

(* The expiry test of cancelNumber: timeLeft <= 0.                         *)
CancelExpired(timeElapsed) == TTL - timeElapsed <= 0

(* The slot test of getOtp and cancelNumber.                               *)
SlotMismatch(activeTransaction, id) ==
  activeTransaction = NoTxn \/ activeTransaction.id # id

(* historyRef.child(key).update(fields): the fields named are replaced,   *)
(* the others kept.                                                        *)
MarkHistory(h, key, fields) == [h EXCEPT ![key] = fields @@ @]

(* GET /api/getOtp: the account is resolved and the slot read; the age of  *)
(* the rental is taken from Date.now() right after the read.               *)
StartGetOtp(u, id) ==
  /\ CanStart
  /\ started' = started + 1
  /\ LET r == [Idle EXCEPT !.kind = "getOtp", !.uid = u, !.id = id,
                           !.afterTerminal = (id \in terminated)]
         r1 == [r EXCEPT !.timeElapsed = now - active[u].startTime]
     IN IF SlotMismatch(active[u], id) THEN Launch(Done(r, "http404"))
        ELSE IF PollExpired(r1.timeElapsed)
             THEN Launch([r1 EXCEPT !.pc = "go_expRemove"])
             ELSE Launch([r1 EXCEPT !.pc = "go_provider"])
  /\ UNCHANGED <<dbVars, provVars, clockVars, budget, acctVars, adminVars, ghostVars>>

(* The expiry path: the slot is removed and the history record looked up.  *)
GetOtpExpRemove(p) ==
  /\ At(p, "getOtp", "go_expRemove")
  /\ active' = [active EXCEPT ![p.uid] = NoTxn]
  /\ LET r == [p EXCEPT !.wrote = @ \cup {"slot"}]
         key == HistoryKey(history[p.uid], p.id)
     IN IF key # 0
        THEN /\ Set(p, [r EXCEPT !.key = key, !.pc = "go_expUpdate"])
             /\ UNCHANGED terminated
        ELSE /\ Set(p, Done(r, "expired"))
             /\ terminated' = terminated \cup {p.id}
  /\ UNCHANGED <<wallet, apiRequests, apiSuccess, apiFailed, totalSpent,
                 referredBy, history, resellers, resellerSales,
                 provVars, clockVars, started, budget, acctVars, adminVars,
                 wallet0, debitSum, refundSum, acquired>>

GetOtpExpUpdate(p) ==
  /\ At(p, "getOtp", "go_expUpdate")
  /\ LET r == p
     IN /\ history' = [history EXCEPT ![r.uid] =
                         MarkHistory(@, r.key, [status |-> "expired"])]
        /\ Set(p, Done([r EXCEPT !.wrote = @ \cup {"history"}], "expired"))
        /\ terminated' = terminated \cup {r.id}
  /\ UNCHANGED <<wallet, apiRequests, apiSuccess, apiFailed, totalSpent,
                 referredBy, active, resellers, resellerSales,
                 provVars, clockVars, started, budget, acctVars, adminVars,
                 wallet0, debitSum, refundSum, acquired>>

(* axios.get(getStatus) in getOtp.                                         *)
GetOtpProviderTimeout(p) ==
  /\ At(p, "getOtp", "go_provider")
  /\ Set(p, Done(p, "http500"))
  /\ UNCHANGED <<dbVars, provVars, clockVars, started, budget, acctVars, adminVars, ghostVars>>

GetOtpProvider(p) ==
  /\ At(p, "getOtp", "go_provider")
  /\ \E n \in CodesNow(TxnOf(p.id)) :
       LET data == StatusText(n)
       IN /\ sms' = [sms EXCEPT ![TxnOf(p.id)] = n]
          /\ IF OtpMatch(data)
             THEN Set(p, [p EXCEPT !.data = data, !.pc = "go_okQuery"])
             ELSE Set(p, Done([p EXCEPT !.data = data,
                                        !.timeLeft = TimeLeft(p.timeElapsed)],
                              "waiting"))
  /\ UNCHANGED <<dbVars, issued, provCancelled, clockVars, started, budget, acctVars, adminVars,
                 ghostVars>>

GetOtpOkQuery(p) ==
  /\ At(p, "getOtp", "go_okQuery")
  /\ LET r == p
         key == HistoryKey(history[r.uid], r.id)
     IN IF key # 0
        THEN Set(p, [r EXCEPT !.key = key, !.pc = "go_okUpdate"])
        ELSE Set(p, [r EXCEPT !.pc = "go_okRemove"])
  /\ UNCHANGED <<dbVars, provVars, clockVars, started, budget, acctVars, adminVars, ghostVars>>

(* Variant: the record is marked success without the code.                *)
GetOtpOkUpdate_NoOtp(p) ==
  /\ At(p, "getOtp", "go_okUpdate")
  /\ LET r == p
     IN /\ history' = [history EXCEPT ![r.uid] =
                         MarkHistory(@, r.key, [status |-> "success"])]
        /\ Set(p, [r EXCEPT !.key = 0, !.pc = "go_okRemove",
                            !.wrote = @ \cup {"history"}])
  /\ UNCHANGED <<wallet, apiRequests, apiSuccess, apiFailed, totalSpent,
                 referredBy, active, resellers, resellerSales,
                 provVars, clockVars, started, budget, acctVars, adminVars, ghostVars>>

(* historyRef.child(key).update({status: 'success', otp: otp})             *)
GetOtpOkUpdate(p) ==
  /\ At(p, "getOtp", "go_okUpdate")
  /\ LET r == p
     IN /\ history' = [history EXCEPT ![r.uid] =
                         MarkHistory(@, r.key,
                           [status |-> "success", otp |-> OtpDigits])]
        /\ Set(p, [r EXCEPT !.key = 0, !.pc = "go_okRemove",
                            !.wrote = @ \cup {"history"}])
  /\ UNCHANGED <<wallet, apiRequests, apiSuccess, apiFailed, totalSpent,
                 referredBy, active, resellers, resellerSales,
                 provVars, clockVars, started, budget, acctVars, adminVars, ghostVars>>

(* Variant: the success path answers without clearing the slot.           *)
GetOtpOkRemove_KeepSlot(p) ==
  /\ At(p, "getOtp", "go_okRemove")
  /\ Set(p, Done(p, "otp"))
  /\ terminated' = terminated \cup {p.id}
  /\ UNCHANGED <<dbVars, provVars, clockVars, started, budget, acctVars, adminVars,
                 wallet0, debitSum, refundSum, acquired>>

GetOtpOkRemove(p) ==
  /\ At(p, "getOtp", "go_okRemove")
  /\ LET r == p
     IN /\ active' = [active EXCEPT ![r.uid] = NoTxn]
        /\ Set(p, Done([r EXCEPT !.wrote = @ \cup {"slot"},
                                 !.timeLeft = TimeLeft(r.timeElapsed)],
                       "otp"))
        /\ terminated' = terminated \cup {r.id}
  /\ UNCHANGED <<wallet, apiRequests, apiSuccess, apiFailed, totalSpent,
                 referredBy, history, resellers, resellerSales,
                 provVars, clockVars, started, budget, acctVars, adminVars,
                 wallet0, debitSum, refundSum, acquired>>

----------------------------------------------------------------------------
(* GET /api/cancelNumber: the account is resolved and the slot read.       *)
StartCancel(u, id) ==
  /\ CanStart
  /\ started' = started + 1
  /\ LET r == [Idle EXCEPT !.kind = "cancelNumber", !.uid = u, !.id = id,
                           !.txn = active[u],
                           !.afterTerminal = (id \in terminated)]
     IN IF SlotMismatch(active[u], id) THEN Launch(Done(r, "http404"))
        ELSE Launch([r EXCEPT !.pc = "cn_provider"])
  /\ UNCHANGED <<dbVars, provVars, clockVars, budget, acctVars, adminVars, ghostVars>>

(* axios.get(getStatus) in cancelNumber, then the OTP and expiry tests.    *)
CancelProviderTimeout(p) ==
  /\ At(p, "cancelNumber", "cn_provider")
  /\ Set(p, Done(p, "http500"))
  /\ UNCHANGED <<dbVars, provVars, clockVars, started, budget, acctVars, adminVars, ghostVars>>

(* Variant: the expiry test precedes the test for a code.                 *)
CancelProvider_ExpiryFirst(p) ==
  /\ At(p, "cancelNumber", "cn_provider")
  /\ \E n \in CodesNow(TxnOf(p.id)) :
       LET r == [p EXCEPT !.data = StatusText(n),
                          !.timeElapsed = now - p.txn.startTime]
       IN /\ sms' = [sms EXCEPT ![TxnOf(p.id)] = n]
          /\ IF CancelExpired(r.timeElapsed)
             THEN Set(p, [r EXCEPT !.pc = "cn_expRemove"])
             ELSE IF OtpMatch(r.data) THEN Set(p, Done(r, "cannotCancel"))
                  ELSE Set(p, [r EXCEPT !.pc = "cn_setStatus"])
  /\ UNCHANGED <<dbVars, issued, provCancelled, clockVars, started, budget, acctVars, adminVars,
                 ghostVars>>

CancelProvider(p) ==
  /\ At(p, "cancelNumber", "cn_provider")
  /\ \E n \in CodesNow(TxnOf(p.id)) :
       LET r == [p EXCEPT !.data = StatusText(n),
                          !.timeElapsed = now - p.txn.startTime]
       IN /\ sms' = [sms EXCEPT ![TxnOf(p.id)] = n]
          /\ IF OtpMatch(r.data) THEN Set(p, Done(r, "cannotCancel"))
             ELSE IF CancelExpired(r.timeElapsed)
                  THEN Set(p, [r EXCEPT !.pc = "cn_expRemove"])
                  ELSE Set(p, [r EXCEPT !.pc = "cn_setStatus"])
  /\ UNCHANGED <<dbVars, issued, provCancelled, clockVars, started, budget, acctVars, adminVars,
                 ghostVars>>

(* The expiry path: the slot is removed and the history record looked up.  *)
CancelExpRemove(p) ==
  /\ At(p, "cancelNumber", "cn_expRemove")
  /\ active' = [active EXCEPT ![p.uid] = NoTxn]
  /\ LET r == [p EXCEPT !.wrote = @ \cup {"slot"}]
         key == HistoryKey(history[p.uid], p.id)
     IN IF key # 0
        THEN /\ Set(p, [r EXCEPT !.key = key, !.pc = "cn_expUpdate"])
             /\ UNCHANGED terminated
        ELSE /\ Set(p, Done(r, "cancelExpired"))
             /\ terminated' = terminated \cup {p.id}
  /\ UNCHANGED <<wallet, apiRequests, apiSuccess, apiFailed, totalSpent,
                 referredBy, history, resellers, resellerSales,
                 provVars, clockVars, started, budget, acctVars, adminVars,
                 wallet0, debitSum, refundSum, acquired>>

CancelExpUpdate(p) ==
  /\ At(p, "cancelNumber", "cn_expUpdate")
  /\ LET r == p
     IN /\ history' = [history EXCEPT ![r.uid] =
                         MarkHistory(@, r.key, [status |-> "expired"])]
        /\ Set(p, Done([r EXCEPT !.wrote = @ \cup {"history"}],
                       "cancelExpired"))
        /\ terminated' = terminated \cup {r.id}
  /\ UNCHANGED <<wallet, apiRequests, apiSuccess, apiFailed, totalSpent,
                 referredBy, active, resellers, resellerSales,
                 provVars, clockVars, started, budget, acctVars, adminVars,
                 wallet0, debitSum, refundSum, acquired>>

(* Variant: a setStatus timeout drops the slot before answering 500.      *)
CancelSetStatusTimeout_DropsSlot(p) ==
  /\ At(p, "cancelNumber", "cn_setStatus")
  /\ active' = [active EXCEPT ![p.uid] = NoTxn]
  /\ Set(p, Done([p EXCEPT !.wrote = @ \cup {"slot"}], "http500"))
  /\ UNCHANGED <<wallet, apiRequests, apiSuccess, apiFailed, totalSpent,
                 referredBy, history, resellers, resellerSales,
                 provVars, clockVars, started, budget, acctVars, adminVars, ghostVars>>

(* axios.get(setStatus, status=8), then refundBalance is entered.          *)
CancelSetStatusTimeout(p) ==
  /\ At(p, "cancelNumber", "cn_setStatus")
  /\ Set(p, Done(p, "http500"))
  /\ UNCHANGED <<dbVars, provVars, clockVars, started, budget, acctVars, adminVars, ghostVars>>

CancelSetStatus(p) ==
  /\ At(p, "cancelNumber", "cn_setStatus")
  /\ provCancelled' = provCancelled \cup {TxnOf(p.id)}
  /\ Set(p, [p EXCEPT !.pc = "rb_readWallet"])
  /\ UNCHANGED <<dbVars, issued, sms, clockVars, started, budget, acctVars, adminVars, ghostVars>>

(* refundBalance(uid, price): wallet read, wallet write with the read of   *)
(* apiFailed, apiFailed write.                                             *)
(* Variant: the refund is computed from the base price.                   *)
RefundReadWallet_BasePrice(p) ==
  /\ At(p, "cancelNumber", "rb_readWallet")
  /\ Set(p, [p EXCEPT !.tmp = wallet[p.uid] + p.txn.basePrice,
                      !.pc = "rb_writeWallet"])
  /\ UNCHANGED <<dbVars, provVars, clockVars, started, budget, acctVars, adminVars, ghostVars>>

RefundReadWallet(p) ==
  /\ At(p, "cancelNumber", "rb_readWallet")
  /\ Set(p, [p EXCEPT !.tmp = wallet[p.uid] + p.txn.price,
                           !.pc = "rb_writeWallet"])
  /\ UNCHANGED <<dbVars, provVars, clockVars, started, budget, acctVars, adminVars, ghostVars>>

RefundWriteWallet(p) ==
  /\ At(p, "cancelNumber", "rb_writeWallet")
  /\ wallet' = [wallet EXCEPT ![p.uid] = p.tmp]
  /\ Set(p, [p EXCEPT !.tmp = apiFailed[p.uid] + 1, !.pc = "rb_writeFailed",
                      !.wrote = @ \cup {"wallet"}])
  /\ UNCHANGED <<apiRequests, apiSuccess, apiFailed, totalSpent, referredBy,
                 active, history, resellers, resellerSales,
                 provVars, clockVars, started, budget, acctVars, adminVars, ghostVars>>

(* The last write of refundBalance; cancelNumber then looks up the         *)
(* history record of the transaction.                                      *)
RefundWriteFailed(p) ==
  /\ At(p, "cancelNumber", "rb_writeFailed")
  /\ apiFailed' = [apiFailed EXCEPT ![p.uid] = p.tmp]
  /\ refundSum' = [refundSum EXCEPT ![p.uid] = @ + p.txn.price]
  /\ acquired' = IF p.id \in DOMAIN acquired
                 THEN [acquired EXCEPT ![p.id].refunded = @ + p.txn.price]
                 ELSE acquired
  /\ LET r == [p EXCEPT !.tmp = 0, !.credited = p.txn.price,
                        !.wrote = @ \cup {"counters"}]
         key == HistoryKey(history[p.uid], p.id)
     IN IF key # 0
        THEN Set(p, [r EXCEPT !.key = key, !.pc = "cn_update"])
        ELSE Set(p, [r EXCEPT !.pc = "cn_remove"])
  /\ UNCHANGED <<wallet, apiRequests, apiSuccess, totalSpent, referredBy,
                 active, history, resellers, resellerSales,
                 provVars, clockVars, started, budget, acctVars, adminVars,
                 wallet0, debitSum, terminated>>

(* Variant: the cancellation takes the commission back from the partner.  *)
CancelUpdate_ClawBack(p) ==
  /\ At(p, "cancelNumber", "cn_update")
  /\ LET r == p
     IN /\ history' = [history EXCEPT ![r.uid] =
                         MarkHistory(@, r.key,
                           [status |-> "cancelled",
                            refundAmount |-> r.credited])]
        /\ resellers' = IF r.txn.resellerId \in DOMAIN resellers
                        THEN [resellers EXCEPT ![r.txn.resellerId].wallet =
                                                 @ - r.txn.commission]
                        ELSE resellers
        /\ Set(p, [r EXCEPT !.key = 0, !.pc = "cn_remove",
                            !.wrote = @ \cup {"history"}])
  /\ UNCHANGED <<wallet, apiRequests, apiSuccess, apiFailed, totalSpent,
                 referredBy, active, resellerSales,
                 provVars, clockVars, started, budget, acctVars, adminVars, ghostVars>>

CancelUpdate(p) ==
  /\ At(p, "cancelNumber", "cn_update")
  /\ LET r == p
     IN /\ history' = [history EXCEPT ![r.uid] =
                         MarkHistory(@, r.key,
                           [status |-> "cancelled",
                            refundAmount |-> r.credited])]
        /\ Set(p, [r EXCEPT !.key = 0, !.pc = "cn_remove",
                            !.wrote = @ \cup {"history"}])
  /\ UNCHANGED <<wallet, apiRequests, apiSuccess, apiFailed, totalSpent,
                 referredBy, active, resellers, resellerSales,
                 provVars, clockVars, started, budget, acctVars, adminVars, ghostVars>>

CancelRemove(p) ==
  /\ At(p, "cancelNumber", "cn_remove")
  /\ LET r == p
     IN /\ active' = [active EXCEPT ![r.uid] = NoTxn]
        /\ Set(p, Done([r EXCEPT !.wrote = @ \cup {"slot"}], "cancelled"))
        /\ terminated' = terminated \cup {r.id}
  /\ UNCHANGED <<wallet, apiRequests, apiSuccess, apiFailed, totalSpent,
                 referredBy, history, resellers, resellerSales,
                 provVars, clockVars, started, budget, acctVars, adminVars,
                 wallet0, debitSum, refundSum, acquired>>

----------------------------------------------------------------------------
(* The response has been sent: the worker is free again.                   *)
Respond(p) ==
  /\ p.pc = "done"
  /\ req' = req (-) SetToBag({p})
  /\ cur' = NoReq
  /\ UNCHANGED <<dbVars, provVars, clockVars, started, preempts, budget, acctVars, adminVars,
                 ghostVars>>

(* Time passes.                                                            *)
Tick(d) ==
  /\ NoneDone
  /\ ticks < MaxTicks
  /\ now' = now + d
  /\ ticks' = ticks + 1
  /\ UNCHANGED <<dbVars, provVars, started, req, cur, preempts, budget, acctVars, adminVars,
                 ghostVars>>

----------------------------------------------------------------------------
(* Accounts that own a partner record; "u0" makes no request here.        *)
Owners == Users \cup {"u0"}

(* The record /api/reseller/register creates, and the values its fields   *)
(* may hold afterwards.                                                    *)
PartnerRecord(o, pct, st) ==
  [NoReseller EXCEPT !.userId = o, !.commissionPercent = pct,
                     !.status = st, !.exists = TRUE]

(* RS1 is a registered partner; RS2 is one only in the records of second. *)
InitWith(c, owners, percents, statuses, second) ==
  /\ wallet \in [Users -> InitWallets]
  /\ wallet0 = wallet
  /\ apiRequests = [u \in Users |-> 0]
  /\ apiSuccess = [u \in Users |-> 0]
  /\ apiFailed = [u \in Users |-> 0]
  /\ totalSpent = [u \in Users |-> 0]
  /\ referredBy = [u \in Users |-> NoRef]
  /\ active = [u \in Users |-> NoTxn]
  /\ history = [u \in Users |-> <<>>]
  /\ resellers \in
       {[rid \in ResellerIds |-> IF rid = "RS1" THEN r1 ELSE r2] :
          r1 \in {PartnerRecord(o, pct, st) :
                    o \in owners, pct \in percents, st \in statuses},
          r2 \in second}
  /\ resellerSales = [rid \in ResellerIds |-> <<>>]
  /\ issued = 0
  /\ sms = [i \in 1..(MaxTxn + 1) |-> 0]
  /\ provCancelled = {}
  /\ now = 0
  /\ ticks = 0
  /\ started = 0
  /\ budget = c
  /\ req = EmptyBag
  /\ cur = NoReq
  /\ preempts = 0
  /\ debitSum = [u \in Users |-> 0]
  /\ refundSum = [u \in Users |-> 0]
  /\ acquired = <<>>
  /\ terminated = {}
  /\ apiKey = [u \in Users |-> 1]
  /\ keysMade = 1
  /\ apiKeyLogs = [u \in Users |-> <<>>]
  /\ userResellerId = [u \in Users |-> NoRef]
  /\ acct = {}
  /\ acctStarted = 0
  /\ transactions = [u \in Users |-> <<>>]
  /\ creditSum = [u \in Users |-> 0]
  /\ purged = {}

Init == InitWith(MaxPreempts, {"u0"}, {15}, {"active"}, {NoReseller})
InitSeq == InitWith(0, Owners, {15}, {"active", "suspended"}, {NoReseller})

PollIds == IssuedIds \cup {"0"}

Next ==
  \/ \E u \in Users, c \in RequestedCountries,
        ref \in {NoRef, "RS1"}, referer \in RefCodes :
       StartGetNumber(u, c, ref, referer)
  \/ \E p \in InFlight : GetNumberReseller(p)
  \/ \E p \in InFlight : GetNumberSaveRef(p)
  \/ \E p \in InFlight : GetNumberProviderTimeout(p)
  \/ \E p \in InFlight : GetNumberProvider(p)
  \/ \E p \in InFlight : DeductReadWallet(p)
  \/ \E p \in InFlight : DeductWriteWallet(p)
  \/ \E p \in InFlight : DeductWriteRequests(p)
  \/ \E p \in InFlight : DeductWriteSuccess(p)
  \/ \E p \in InFlight : DeductWriteSpent(p)
  \/ \E p \in InFlight : GetNumberSetActive(p)
  \/ \E p \in InFlight : GetNumberPushHistory(p)
  \/ \E p \in InFlight : GetNumberSetActiveFails(p)
  \/ \E p \in InFlight : ResellerStatsWrite(p)
  \/ \E p \in InFlight : GetNumberSaleSet(p)
  \/ \E u \in Users, id \in PollIds : StartGetOtp(u, id)
  \/ \E p \in InFlight : GetOtpExpRemove(p)
  \/ \E p \in InFlight : GetOtpExpUpdate(p)
  \/ \E p \in InFlight : GetOtpProviderTimeout(p)
  \/ \E p \in InFlight : GetOtpProvider(p)
  \/ \E p \in InFlight : GetOtpOkQuery(p)
  \/ \E p \in InFlight : GetOtpOkUpdate(p)
  \/ \E p \in InFlight : GetOtpOkRemove(p)
  \/ \E u \in Users, id \in PollIds : StartCancel(u, id)
  \/ \E p \in InFlight : CancelProviderTimeout(p)
  \/ \E p \in InFlight : CancelProvider(p)
  \/ \E p \in InFlight : CancelExpRemove(p)
  \/ \E p \in InFlight : CancelExpUpdate(p)
  \/ \E p \in InFlight : CancelSetStatusTimeout(p)
  \/ \E p \in InFlight : CancelSetStatus(p)
  \/ \E p \in InFlight : RefundReadWallet(p)
  \/ \E p \in InFlight : RefundWriteWallet(p)
  \/ \E p \in InFlight : RefundWriteFailed(p)
  \/ \E p \in InFlight : CancelUpdate(p)
  \/ \E p \in InFlight : CancelRemove(p)
  \/ \E p \in InFlight : Respond(p)
  \/ \E d \in ClockSteps : Tick(d)

(* The percentages /api/reseller/register accepts.                         *)
Percents == 5..30

(* Price calculation alone: one purchase through a partner code, for every *)
(* catalog service and every percentage a partner can have registered.     *)
InitCalc == InitWith(0, {"u0"}, Percents, {"active"}, {NoReseller})

NextCalc ==
  \/ \E u \in Users, c \in DOMAIN countries, ref \in {"RS1"} :
       StartGetNumber(u, c, ref, NoRef)
  \/ \E p \in InFlight : GetNumberReseller(p)

SpecCalc == InitCalc /\ [][NextCalc]_vars

(* Requests interleave at their awaits.                                    *)
Spec == Init /\ [][Next]_vars

(* Requests are served one at a time.                                      *)
SpecSeq == InitSeq /\ [][Next]_vars

TypeOK ==
  /\ wallet \in [Users -> Int]
  /\ issued \in 0..MaxTxn
  /\ started \in 0..MaxRequests
  /\ \A p \in InFlight : p.kind \in {"getNumber", "getOtp", "cancelNumber"}

----------------------------------------------------------------------------
(* Properties.                                                             *)

Ledger == {"wallet", "counters", "slot", "history"}
GetNumbers == {p \in InFlight : p.kind = "getNumber"}
GetOtps == {p \in InFlight : p.kind = "getOtp"}
Cancels == {p \in InFlight : p.kind = "cancelNumber"}
ActiveKeys(u) == {k \in 1..Len(history[u]) : history[u][k].status = "active"}

(* C1: the wallet balance of every account is never negative, whatever the *)
(* interleaving of deductBalance and refundBalance.                        *)
C1_WalletNonNegative == \A u \in Users : wallet[u] >= 0

(* A purchase has brought the wallet down to exactly zero.                 *)
C1_Witness == \E u \in Users : wallet[u] = 0 /\ debitSum[u] > 0

(* C2: debits do not interleave: once no request is in flight and nothing  *)
(* has been refunded, the wallet is the initial balance minus the sum of   *)
(* the prices of the debits that succeeded, and totalSpent is that sum.    *)
C2_AtomicDebit ==
  \A u \in Users :
    (InFlight = {} /\ refundSum[u] = 0) =>
      /\ wallet[u] = wallet0[u] - debitSum[u]
      /\ totalSpent[u] = debitSum[u]

(* C3: getNumber debits only for a number the provider has issued in       *)
(* answer to this request, and a slot is written only after this request's *)
(* deductBalance has returned for the price stored in the slot.            *)
C3_DebitAfterProviderSlotAfterDebit ==
  /\ \A p \in GetNumbers :
       /\ (p.pc \in {"db_readWallet", "db_writeWallet", "db_writeRequests",
                     "db_writeSuccess", "db_writeSpent"}
             \/ p.wrote \cap Ledger # {})
            => p.id \in IssuedIds
       /\ ("slot" \in p.wrote)
            => (p.debited = p.finalPrice /\ p.txn.price = p.debited
                  /\ "wallet" \in p.wrote)
  /\ \A u \in Users :
       active[u] # NoTxn =>
         /\ active[u].id \in DOMAIN acquired
         /\ acquired[active[u].id].debited = active[u].price

(* A slot is held after a commissioned purchase.                           *)
C3_Witness == \E u \in Users : active[u] # NoTxn /\ active[u].commission > 0

(* C4: when the provider's answer is not the success line, getNumber       *)
(* changes neither wallet, counters, slot nor history.                     *)
C4_NoMutationOnProviderFailure ==
  \A p \in GetNumbers :
    (p.data # <<>> /\ ~SuccessFormat(p.data)) => p.wrote \cap Ledger = {}

(* C5: a getNumber whose loaded wallet is below the final price ends with  *)
(* 402 without invoking deductBalance and without writing wallet,          *)
(* counters, slot or history.                                              *)
C5_InsufficientFunds ==
  \A p \in GetNumbers :
    (p.country \in DOMAIN countries
       /\ p.pc \notin {"gn_getReseller", "gn_saveRef"}
       /\ p.userWallet < p.finalPrice)
      => /\ p.pc = "done"
         /\ p.result = "http402"
         /\ p.debited = 0
         /\ p.wrote \cap Ledger = {}

(* A purchase with a commission has been refused for lack of funds.        *)
C5_Witness ==
  \E p \in GetNumbers : p.result = "http402" /\ p.commission > 0

(* C6: with requests served one after the other, a cancelNumber that       *)
(* refunds credits exactly the amount debited when the number was          *)
(* acquired, and when no other debit or refund has come between that       *)
(* getNumber and this cancelNumber the wallet is back at its value before  *)
(* the getNumber.                                                          *)
C6_AcquireCancelRoundTrip ==
  \A p \in Cancels :
    (p.pc = "done" /\ p.result = "cancelled") =>
      /\ p.id \in DOMAIN acquired
      /\ p.credited = acquired[p.id].debited
      /\ (/\ debitSum[p.uid] =
               acquired[p.id].debitsBefore + acquired[p.id].debited
          /\ refundSum[p.uid] = acquired[p.id].refundsBefore + p.credited)
           => wallet[p.uid] = acquired[p.id].before

(* A commissioned rental has been cancelled and refunded.                  *)
C6_Witness ==
  \E p \in Cancels :
    p.result = "cancelled" /\ p.credited > countries["philippines_51"]
      /\ p.txn.commission > 0
      /\ wallet[p.uid] = wallet0[p.uid]

(* C7: a cancelNumber whose status call returned a six-digit code is       *)
(* refused with CannotCancel and credits nothing.                          *)
C7_NoRefundAfterOtp ==
  \A p \in Cancels :
    p.data = StatusText(OtpDigits) =>
      /\ p.pc = "done"
      /\ p.result = "cannotCancel"
      /\ p.credited = 0
      /\ p.wrote = {}

(* A cancellation has been refused because the code was there.             *)
C7_Witness == \E p \in Cancels : p.result = "cannotCancel"

(* C8: a getOtp that finds the rental older than the window takes the      *)
(* expiry path without asking the provider: it clears the slot, marks the  *)
(* history record of the rental expired, and answers with the time-expired *)
(* failure.  The record is missing only while the getNumber that acquired  *)
(* the rental is still in flight and has not pushed it yet.                *)
C8_PollExpires ==
  \A p \in GetOtps :
    p.timeElapsed > TTL =>
      /\ p.pc \in {"go_expRemove", "go_expUpdate", "done"}
      /\ p.data = <<>>
      /\ p.pc = "done" =>
           /\ p.result = "expired"
           /\ "slot" \in p.wrote
           /\ active[p.uid].id # p.id
           /\ LET key == HistoryKey(history[p.uid], p.id)
              IN IF key # 0
                 THEN history[p.uid][key].status = "expired"
                 ELSE \E q \in GetNumbers :
                        q.id = p.id /\ "history" \notin q.wrote

(* A poll has expired a rental and marked its history record.              *)
C8_Witness ==
  \E p \in GetOtps :
    p.result = "expired" /\ "history" \in p.wrote /\ p.timeElapsed > TTL

(* C9: a getOtp or cancelNumber for a transaction whose terminal request   *)
(* (success, expiry or cancellation) has completed answers 404 and writes  *)
(* nothing.                                                                *)
C9_TerminalIsNotFound ==
  \A p \in GetOtps \cup Cancels :
    p.afterTerminal =>
      /\ p.pc = "done"
      /\ p.result = "http404"
      /\ p.wrote = {}
      /\ p.credited = 0

(* An old transaction id has been polled or cancelled again.               *)
C9_Witness ==
  \E p \in GetOtps \cup Cancels : p.afterTerminal /\ p.result = "http404"

(* C10: no account has two rentals in status active.                       *)
C10_OneActiveRental == \A u \in Users : Cardinality(ActiveKeys(u)) <= 1

(* C11: a getNumber received while the account holds a rental slot is      *)
(* refused: it debits nothing, does not write the slot, and does not end   *)
(* as a purchase.                                                          *)
C11_RentalInProgress ==
  \A p \in GetNumbers :
    p.held =>
      /\ p.debited = 0
      /\ "wallet" \notin p.wrote
      /\ "slot" \notin p.wrote
      /\ p.result # "ok"

(* C12: for every rental, the total credited back by refundBalance never   *)
(* exceeds the amount debited for it by deductBalance.                     *)
C12_RefundAtMostDebit ==
  \A id \in DOMAIN acquired : acquired[id].refunded <= acquired[id].debited

(* C13: the price charged through a partner is the base price plus the     *)
(* commission, where the commission is basePrice * pct / 100 rounded to    *)
(* the nearest integer with halves rounded up, a non-negative integer; for *)
(* base price 100 and 15 percent the price is 115.                         *)
C13_CommissionRounding ==
  /\ calculatePriceWithCommission(100, 15) = 115
  /\ \A p \in GetNumbers :
       p.resellerId # NoRef =>
         LET basePrice == countries[p.country]
             pct == resellers[p.resellerId].commissionPercent
             c == p.finalPrice - basePrice
         IN /\ pct \in Percents
            /\ p.commission = c
            /\ c \in Nat
            /\ 200 * c - 100 <= 2 * basePrice * pct
            /\ 2 * basePrice * pct < 200 * c + 100

(* A price whose commission falls exactly on a half has been computed.     *)
C13_Witness ==
  \E p \in GetNumbers :
    /\ p.resellerId # NoRef
    /\ (countries[p.country]
          * resellers[p.resellerId].commissionPercent) % 100 = 50

(* C14: with requests served one after the other, a purchase through a     *)
(* resolved partner debits the buyer basePrice + commission, raises the    *)
(* partner's balance by exactly the commission and records the sale under  *)
(* resellerSales; 15 percent on base price 52 charges 60 and pays 8.       *)
C14_CommissionedSale ==
  /\ calculatePriceWithCommission(52, 15) = 60
  /\ \A p \in GetNumbers :
       (p.pc = "done" /\ p.result = "ok" /\ p.resellerId # NoRef) =>
         /\ p.finalPrice = countries[p.country] + p.commission
         /\ p.debited = p.finalPrice
         /\ wallet[p.uid] = p.userWallet - p.finalPrice
         /\ p.earned = p.commission
         /\ \E k \in DOMAIN resellerSales[p.resellerId] :
              LET sale == resellerSales[p.resellerId][k]
              IN /\ sale.transactionId = p.id
                 /\ sale.userId = p.uid
                 /\ sale.amount = p.finalPrice
                 /\ sale.commission = p.commission

(* The 15 percent purchase of philippines_51 has been completed.           *)
C14_Witness ==
  \E p \in GetNumbers :
    /\ p.pc = "done" /\ p.result = "ok"
    /\ p.debited = 60 /\ p.earned = 8
    /\ resellers[p.resellerId].totalCommission >= 8

(* The transactions debited to account u.                                  *)
DebitsOf(u) == {id \in DOMAIN acquired : acquired[id].uid = u}

(* C15: with requests served one after the other, a completed purchase has *)
(* lowered the wallet by exactly its price, every debit has raised         *)
(* apiRequests and apiSuccess by one and totalSpent by its amount, and the *)
(* slot holds the rental, active, expiring 900 seconds after its start.    *)
C15_DebitAndActiveRental ==
  \A p \in GetNumbers :
    (p.pc = "done" /\ p.result = "ok") =>
      /\ p.debited = p.finalPrice
      /\ p.userWallet >= p.debited
      /\ wallet[p.uid] = p.userWallet - p.debited
      /\ apiRequests[p.uid] = Cardinality(DebitsOf(p.uid))
      /\ apiSuccess[p.uid] = Cardinality(DebitsOf(p.uid))
      /\ totalSpent[p.uid] = debitSum[p.uid]
      /\ active[p.uid].id = p.id
      /\ active[p.uid].price = p.debited
      /\ active[p.uid].expiresAt - active[p.uid].startTime = 900 * 1000
      /\ LET key == HistoryKey(history[p.uid], p.id)
         IN key # 0 /\ history[p.uid][key].status = "active"

(* An account with balance 103 has bought india_115 and is left with 0.    *)
C15_Witness ==
  \E p \in GetNumbers :
    /\ p.pc = "done" /\ p.result = "ok"
    /\ p.country = "india_115" /\ p.userWallet = 103 /\ p.resellerId = NoRef
    /\ wallet[p.uid] = 0

(* C16: debit and slot write are one unit: a getNumber that ends in a      *)
(* failure leaves the wallet and the success counter at their values       *)
(* before the request, and a request that debited nothing writes no slot.  *)
C16_DebitAndSlotOneUnit ==
  \A p \in GetNumbers :
    /\ (p.pc = "done" /\ p.result # "ok") =>
         /\ wallet[p.uid] = p.userWallet
         /\ apiSuccess[p.uid] = Cardinality(DebitsOf(p.uid) \ {p.id})
    /\ p.debited = 0 => "slot" \notin p.wrote

(* C17: a cancelNumber that finds no code and the window lapsed takes the  *)
(* expiry path: it credits nothing and writes neither wallet nor counters, *)
(* clears the slot, marks the history record expired and reports a zero    *)
(* refund.  The update leaves the record's refundAmount as it was: zero    *)
(* unless another cancellation has refunded the rental.  The record is     *)
(* missing only while the getNumber that acquired the rental is still in   *)
(* flight and has not pushed it yet.                                       *)
C17_CancelAfterTTL ==
  \A p \in Cancels :
    (p.data # <<>> /\ ~OtpMatch(p.data) /\ p.timeElapsed >= TTL) =>
      /\ p.pc \in {"cn_expRemove", "cn_expUpdate", "done"}
      /\ p.credited = 0
      /\ p.wrote \cap {"wallet", "counters"} = {}
      /\ p.pc = "done" =>
           /\ p.result = "cancelExpired"
           /\ "slot" \in p.wrote
           /\ active[p.uid].id # p.id
           /\ LET key == HistoryKey(history[p.uid], p.id)
              IN IF key # 0
                 THEN /\ history[p.uid][key].status = "expired"
                      /\ (\A id \in DOMAIN acquired :
                            id = p.id => acquired[id].refunded = 0)
                           => history[p.uid][key].refundAmount = 0
                 ELSE \E q \in GetNumbers :
                        q.id = p.id /\ "history" \notin q.wrote

(* A cancellation has expired a rental and marked its history record.      *)
C17_Witness ==
  \E p \in Cancels :
    /\ p.result = "cancelExpired" /\ "history" \in p.wrote
    /\ p.timeElapsed >= TTL /\ wallet[p.uid] < wallet0[p.uid]

(* C18: a cancelNumber that refunds credits the buyer the whole price      *)
(* charged, base price plus commission, and no step of a cancelNumber      *)
(* changes a partner record or a partner's sale entries.                   *)
C18_NoCommissionClawBack ==
  /\ [](\A p \in Cancels :
          (p.pc = "done" /\ p.result = "cancelled") =>
            /\ p.credited = p.txn.price
            /\ p.txn.price = p.txn.basePrice + p.txn.commission
            /\ p.id \in DOMAIN acquired
            /\ p.credited = acquired[p.id].debited)
  /\ [][cur'.kind = "cancelNumber" =>
          (resellers' = resellers /\ resellerSales' = resellerSales)]_vars

(* A commissioned rental has been refunded in full and the partner still   *)
(* holds the commission.                                                   *)
C18_Witness ==
  \E p \in Cancels :
    /\ p.pc = "done" /\ p.result = "cancelled"
    /\ p.txn.commission > 0 /\ p.credited = p.txn.price
    /\ resellers[p.txn.resellerId].wallet >= p.txn.commission
    /\ resellerSales[p.txn.resellerId] # <<>>

(* C19: a purchase whose referral code names the buyer's own partner       *)
(* record is charged the base price and pays no commission.                *)
C19_NoSelfCommission ==
  \A p \in GetNumbers :
    (/\ p.referralCode \in DOMAIN resellers
     /\ resellers[p.referralCode].userId = p.uid
     /\ p.pc # "gn_getReseller") =>
      /\ p.finalPrice = countries[p.country]
      /\ p.commission = 0
      /\ p.earned = 0
      /\ "reseller" \notin p.wrote

(* The referral code of request p names no partner record.                 *)
UnknownCode(p) ==
  /\ p.referralCode # NoRef
  /\ ~(p.referralCode \in DOMAIN resellers /\ resellers[p.referralCode].exists)

(* C20: a getNumber whose referral code names no partner goes on at the    *)
(* base price: no commission, no partner credited, no referrer stored, and *)
(* it is refused for funds only when the wallet is below the base price.   *)
C20_UnknownCodeFallsBack ==
  \A p \in GetNumbers :
    (UnknownCode(p) /\ p.pc # "gn_getReseller") =>
      /\ p.finalPrice = countries[p.country]
      /\ p.commission = 0
      /\ p.resellerId = NoRef
      /\ p.earned = 0
      /\ p.debited \in {0, countries[p.country]}
      /\ p.wrote \cap {"referredBy", "reseller", "sales"} = {}
      /\ referredBy[p.uid] # p.referralCode
      /\ (p.pc = "done" /\ p.result = "http402") =>
           p.userWallet < countries[p.country]

(* A purchase with an unknown code has been completed at the base price.   *)
C20_Witness ==
  \E p \in GetNumbers :
    /\ UnknownCode(p)
    /\ p.pc = "done" /\ p.result = "ok"
    /\ p.debited = countries[p.country]

C24_CountersMonotonic ==
  [][\A u \in Users :
       /\ apiRequests'[u] >= apiRequests[u]
       /\ apiSuccess'[u] >= apiSuccess[u]
       /\ apiFailed'[u] >= apiFailed[u]
       /\ totalSpent'[u] >= totalSpent[u]]_vars

(* The commissioned purchases attributed to partner rid, as the positions  *)
(* of their history records, and the totals over them.                     *)
SalesOf(rid) ==
  {x \in UNION {{<<u, k>> : k \in 1..Len(history[u])} : u \in Users} :
     /\ history[x[1]][x[2]].resellerId = rid
     /\ history[x[1]][x[2]].commission > 0}

RECURSIVE CommissionOver(_)
CommissionOver(S) ==
  IF S = {} THEN 0
  ELSE LET x == CHOOSE y \in S : TRUE
       IN history[x[1]][x[2]].commission + CommissionOver(S \ {x})

RECURSIVE VolumeOver(_)
VolumeOver(S) ==
  IF S = {} THEN 0
  ELSE LET x == CHOOSE y \in S : TRUE
       IN history[x[1]][x[2]].price + VolumeOver(S \ {x})

(* C26: once every request has been answered, each partner's balance,      *)
(* cumulative commission, sales volume and sales count are the sums over   *)
(* all the commissioned sales attributed to it.                            *)
C26_PartnerEarningsAtomic ==
  InFlight = {} =>
    \A rid \in ResellerIds :
      resellers[rid].exists =>
        /\ resellers[rid].wallet = CommissionOver(SalesOf(rid))
        /\ resellers[rid].totalCommission = CommissionOver(SalesOf(rid))
        /\ resellers[rid].totalSales = VolumeOver(SalesOf(rid))
        /\ resellers[rid].referralCount = Cardinality(SalesOf(rid))

TimedOut(p) ==
  /\ p.pc = "done"
  /\ p.result = "http500"
  /\ p.kind = "getNumber" => p.id = "none"

(* C27: a request whose provider call timed out has written neither the    *)
(* wallet, a counter, the slot nor the history, has debited and credited   *)
(* nothing, and, when no other request ran in between, the slot a Poll or  *)
(* Cancel found is still there.                                            *)
C27_TimeoutLeavesLedger ==
  \A p \in InFlight :
    TimedOut(p) =>
      /\ p.wrote \cap Ledger = {}
      /\ p.debited = 0
      /\ p.credited = 0
      /\ (p.kind # "getNumber" /\ preempts = 0) => active[p.uid].id = p.id

C27_Witness ==
  /\ \E p \in Cancels :
       TimedOut(p) /\ p.data # <<>> /\ active[p.uid].id = p.id

(* C29: a provider answer that is not ACCESS_NUMBER:<id>:<phone> (leading  *)
(* token, exactly two further fields) ends the purchase as a failure with  *)
(* no transaction id taken from it, no debit and no slot written.          *)
C29_StrictSuccessFormat ==
  \A p \in GetNumbers :
    (p.data # <<>> /\ ~SuccessFormat(p.data)) =>
      /\ p.pc = "done"
      /\ p.result = "fail"
      /\ p.id = "none"
      /\ p.debited = 0
      /\ "slot" \notin p.wrote

(* C30: a getOtp whose provider status holds a six-digit code found the    *)
(* rental within its window, writes neither wallet nor counters, and,      *)
(* when requests are served one at a time, answers with the code, leaves   *)
(* the slot empty and the rental's history record marked success with the  *)
(* code.                                                                   *)
C30_PollSuccess ==
  \A p \in GetOtps :
    OtpMatch(p.data) =>
      /\ p.timeElapsed <= TTL
      /\ p.pc \in {"go_okQuery", "go_okUpdate", "go_okRemove", "done"}
      /\ p.wrote \cap {"wallet", "counters"} = {}
      /\ p.debited = 0 /\ p.credited = 0
      /\ p.pc = "done" =>
           LET k == HistoryKey(history[p.uid], p.id)
           IN /\ p.result = "otp"
              /\ active[p.uid] = NoTxn
              /\ k # 0
              /\ history[p.uid][k].status = "success"
              /\ history[p.uid][k].otp = OtpDigits

C30_Witness ==
  \E p \in GetOtps :
    /\ OtpMatch(p.data)
    /\ p.pc = "done"
    /\ p.result = "otp"
    /\ {"history", "slot"} \subseteq p.wrote

(* Two registered partners, requests interleaving at their awaits.         *)
InitRef ==
  InitWith(MaxPreempts, {"u0"}, {15}, {"active"},
           {PartnerRecord("u0", 15, "active")})

SpecRef == InitRef /\ [][Next]_vars

(* C22: a stored referrer is never replaced: no step changes               *)
(* users/<uid>/referredBy once it holds a code.                            *)
C22_FirstAttributionWins ==
  [][\A u \in Users :
       referredBy[u] # NoRef => referredBy'[u] = referredBy[u]]_vars

----------------------------------------------------------------------------
(* Account requests: POST /api/changeApiKey, /api/dashboard/changeApiKey,  *)
(* /api/dashboard/generateApiKey and /api/reseller/register.  Each awaited *)
(* database operation is one step; these requests interleave freely.       *)
MaxAcctRequests == 3   \* account requests received in one behaviour

rentalVars == <<dbVars, provVars, clockVars, started, req, cur, preempts,
                budget, ghostVars>>

NoKey == 0
(* The ids generateResellerId may return, and the percentages asked for.   *)
NewResellerIds == {"RS3", "RS4", "RS5"}
AskedPercents == {0, 4, 20}

AcctIdle == [kind |-> "idle", pc |-> "idle", n |-> 0, uid |-> "none",
             oldKey |-> NoKey, newKey |-> NoKey, commission |-> 0,
             amount |-> 0, tmp |-> 0,
             newId |-> NoRef, result |-> "none", wrote |-> {}]

AcctSet(p, r) == acct' = (acct \ {p}) \cup {r}
AcctDone(r, res) == [r EXCEPT !.pc = "done", !.result = res]
AcctLaunch(r) ==
  /\ acctStarted < MaxAcctRequests
  /\ acctStarted' = acctStarted + 1
  /\ acct' = acct \cup {[r EXCEPT !.n = acctStarted + 1]}

(* getUserByApiKey(apiKey): the account whose current key it is.           *)
getUserByApiKey(k) ==
  IF k # NoKey /\ \E u \in Users : apiKey[u] = k
  THEN CHOOSE u \in Users : apiKey[u] = k
  ELSE "none"

(* POST /api/changeApiKey: the account is resolved by the key presented.   *)
StartChangeApiKey(k) ==
  /\ LET u == getUserByApiKey(k)
         r == [AcctIdle EXCEPT !.kind = "changeApiKey"]
     IN IF u = "none" THEN AcctLaunch(AcctDone(r, "http401"))
        ELSE AcctLaunch([r EXCEPT !.uid = u, !.oldKey = apiKey[u],
                                  !.pc = "ck_setKey"])
  /\ UNCHANGED <<rentalVars, adminVars, apiKey, keysMade, apiKeyLogs, userResellerId>>

(* POST /api/dashboard/changeApiKey: the account is resolved by token.     *)
StartDashboardChangeApiKey(u) ==
  /\ AcctLaunch([AcctIdle EXCEPT !.kind = "dashboardChangeApiKey",
                                 !.uid = u, !.oldKey = apiKey[u],
                                 !.pc = "ck_setKey"])
  /\ UNCHANGED <<rentalVars, adminVars, apiKey, keysMade, apiKeyLogs, userResellerId>>

(* users/<uid>/apiKey.set(newApiKey), a freshly drawn key.                 *)
ChangeKeySet(p) ==
  /\ p \in acct /\ p.pc = "ck_setKey"
  /\ keysMade' = keysMade + 1
  /\ apiKey' = [apiKey EXCEPT ![p.uid] = keysMade + 1]
  /\ AcctSet(p, [p EXCEPT !.newKey = keysMade + 1, !.pc = "ck_log",
                          !.wrote = @ \cup {"apiKey"}])
  /\ UNCHANGED <<rentalVars, adminVars, apiKeyLogs, userResellerId, acctStarted>>

(* apiKeyLogs/<uid>.push().set({... changeType ...})                       *)
ChangeKeyLog(p) ==
  /\ p \in acct /\ p.pc = "ck_log"
  /\ apiKeyLogs' = [apiKeyLogs EXCEPT ![p.uid] =
        Append(@, [timestamp |-> now,
                   changeType |-> IF p.kind = "changeApiKey"
                                  THEN "user_request"
                                  ELSE "dashboard_request"])]
  /\ AcctSet(p, AcctDone([p EXCEPT !.wrote = @ \cup {"apiKeyLogs"}], "ok"))
  /\ UNCHANGED <<rentalVars, adminVars, apiKey, keysMade, userResellerId, acctStarted>>

(* POST /api/dashboard/generateApiKey                                      *)
StartGenerateApiKey(u) ==
  /\ AcctLaunch([AcctIdle EXCEPT !.kind = "generateApiKey",
                                 !.uid = u, !.oldKey = apiKey[u],
                                 !.pc = "gk_setKey"])
  /\ UNCHANGED <<rentalVars, adminVars, apiKey, keysMade, apiKeyLogs, userResellerId>>

(* users/<uid>/apiKey.set(newApiKey); the handler then answers.            *)
GenerateKeySet(p) ==
  /\ p \in acct /\ p.pc = "gk_setKey"
  /\ keysMade' = keysMade + 1
  /\ apiKey' = [apiKey EXCEPT ![p.uid] = keysMade + 1]
  /\ AcctSet(p, AcctDone([p EXCEPT !.newKey = keysMade + 1,
                                   !.wrote = @ \cup {"apiKey"}], "ok"))
  /\ UNCHANGED <<rentalVars, adminVars, apiKeyLogs, userResellerId, acctStarted>>

(* POST /api/reseller/register: the account is loaded; a referred account  *)
(* and one that already has a resellerId are rejected, then the percentage *)
(* is validated (parseInt(commissionPercent) || 15, 5..30).                *)
StartRegisterReseller(u, asked) ==
  /\ LET r == [AcctIdle EXCEPT !.kind = "registerReseller", !.uid = u]
         commission == IF asked # 0 THEN asked ELSE 15
     IN IF referredBy[u] # NoRef THEN AcctLaunch(AcctDone(r, "http403"))
        ELSE IF userResellerId[u] # NoRef
             THEN AcctLaunch(AcctDone(r, "http400"))
        ELSE IF commission \notin Percents
             THEN AcctLaunch(AcctDone(r, "http400"))
        ELSE AcctLaunch([r EXCEPT !.commission = commission,
                                  !.pc = "rr_setReseller"])
  /\ UNCHANGED <<rentalVars, adminVars, apiKey, keysMade, apiKeyLogs, userResellerId>>

(* resellers/<resellerId>.set(resellerData), resellerId freshly drawn.     *)
RegisterSetReseller(p) ==
  /\ p \in acct /\ p.pc = "rr_setReseller"
  /\ \E id \in NewResellerIds \ DOMAIN resellers :
       /\ resellers' =
            (id :> PartnerRecord(p.uid, p.commission, "active")) @@ resellers
       /\ AcctSet(p, [p EXCEPT !.newId = id, !.pc = "rr_setUser",
                               !.wrote = @ \cup {"reseller"}])
  /\ UNCHANGED <<wallet, apiRequests, apiSuccess, apiFailed, totalSpent,
                 referredBy, active, history, resellerSales,
                 provVars, clockVars, started, req, cur, preempts, budget,
                 ghostVars, apiKey, keysMade, apiKeyLogs, userResellerId,
                 acctStarted, adminVars>>

(* users/<uid>/resellerId.set(resellerId)                                  *)
RegisterSetUser(p) ==
  /\ p \in acct /\ p.pc = "rr_setUser"
  /\ userResellerId' = [userResellerId EXCEPT ![p.uid] = p.newId]
  /\ AcctSet(p, AcctDone([p EXCEPT !.wrote = @ \cup {"resellerId"}], "ok"))
  /\ UNCHANGED <<rentalVars, adminVars, apiKey, keysMade, apiKeyLogs, acctStarted>>

(* The response has been sent.                                             *)
AcctRespond(p) ==
  /\ p \in acct /\ p.pc = "done"
  /\ acct' = acct \ {p}
  /\ UNCHANGED <<rentalVars, adminVars, apiKey, keysMade, apiKeyLogs, userResellerId,
                 acctStarted>>

InitAccount == InitWith(0, {"u0"}, {15}, {"active"}, {NoReseller})

NextAccount ==
  \/ \E k \in 0..keysMade : StartChangeApiKey(k)
  \/ \E u \in Users : StartDashboardChangeApiKey(u)
  \/ \E p \in acct : ChangeKeySet(p)
  \/ \E p \in acct : ChangeKeyLog(p)
  \/ \E u \in Users : StartGenerateApiKey(u)
  \/ \E p \in acct : GenerateKeySet(p)
  \/ \E u \in Users, asked \in AskedPercents : StartRegisterReseller(u, asked)
  \/ \E p \in acct : RegisterSetReseller(p)
  \/ \E p \in acct : RegisterSetUser(p)
  \/ \E p \in acct : AcctRespond(p)

SpecAccount == InitAccount /\ [][NextAccount]_vars

KeyRequests ==
  {p \in acct : p.kind \in {"changeApiKey", "dashboardChangeApiKey",
                            "generateApiKey"}}

(* C23: a completed credential-generating request has made its old key    *)
(* resolve to no account and has appended an entry to the account's        *)
(* credential-change log.                                                  *)
C23_NewKeyInvalidatesAndLogs ==
  \A p \in KeyRequests :
    (p.pc = "done" /\ p.result = "ok") =>
      /\ getUserByApiKey(p.oldKey) = "none"
      /\ "apiKeyLogs" \in p.wrote
      /\ Len(apiKeyLogs[p.uid]) >= 1

(* C25: no account owns more than one partner record.                      *)
C25_OnePartnerRecordPerAccount ==
  \A u \in Users :
    Cardinality({rid \in DOMAIN resellers :
                   resellers[rid].exists /\ resellers[rid].userId = u}) <= 1

(* C31: a getOtp within the window whose provider status holds no code     *)
(* writes nothing, reports TTL minus the elapsed time (in seconds, not     *)
(* negative) and, when no other request ran in between, leaves the slot    *)
(* holding the rental and its history record active.                       *)
C31_PollWaiting ==
  \A p \in GetOtps :
    (p.pc = "done" /\ p.result = "waiting") =>
      /\ ~OtpMatch(p.data)
      /\ p.timeElapsed <= TTL
      /\ p.wrote = {}
      /\ p.debited = 0 /\ p.credited = 0
      /\ p.timeLeft >= 0
      /\ p.timeLeft * 1000 = TTL - p.timeElapsed
      /\ preempts = 0 =>
           LET k == HistoryKey(history[p.uid], p.id)
           IN /\ active[p.uid].id = p.id
              /\ k # 0 => history[p.uid][k].status = "active"

C31_Witness ==
  \E p \in GetOtps :
    /\ p.pc = "done" /\ p.result = "waiting"
    /\ p.timeElapsed = TTL
    /\ active[p.uid].id = p.id
    /\ HistoryKey(history[p.uid], p.id) # 0

(* The side of its expiry test a getOtp has taken, once the slot matched.  *)
PollTreatsExpired(p) ==
  p.pc \in {"go_expRemove", "go_expUpdate"} \/ p.result = "expired"
PollTreatsActive(p) ==
  \/ p.pc \in {"go_provider", "go_okQuery", "go_okUpdate", "go_okRemove"}
  \/ p.result \in {"waiting", "otp"}

(* The side of its expiry test a cancelNumber has taken.                   *)
CancelTreatsExpired(q) ==
  q.pc \in {"cn_expRemove", "cn_expUpdate"} \/ q.result = "cancelExpired"
CancelTreatsActive(q) ==
  \/ q.pc \in {"cn_setStatus", "rb_readWallet", "rb_writeWallet",
               "rb_writeFailed", "cn_update", "cn_remove"}
  \/ q.result = "cancelled"

(* C32: a getOtp and a cancelNumber that measured the same elapsed time on *)
(* the same rental took the same side of the expiry test.                  *)
C32_ExpiryConsistent ==
  \A p \in GetOtps, q \in Cancels :
    (p.id = q.id /\ p.timeElapsed = q.timeElapsed) =>
      /\ ~(PollTreatsActive(p) /\ CancelTreatsExpired(q))
      /\ ~(PollTreatsExpired(p) /\ CancelTreatsActive(q))

(* C34: a rental whose history record holds a delivered code has not been  *)
(* refunded: refundBalance has credited nothing for it and the record      *)
(* shows no refund.                                                        *)
C34_NoRefundOfDeliveredOtp ==
  \A u \in Users :
    \A k \in 1..Len(history[u]) :
      history[u][k].otp # 0 =>
        /\ history[u][k].refundAmount = 0
        /\ \A id \in DOMAIN acquired :
             id = history[u][k].transactionId => acquired[id].refunded = 0

(* C35: no step changes the status of a history record that is success,    *)
(* cancelled or expired.                                                   *)
C35_TerminalStatusFinal ==
  [][\A u \in Users :
       \A k \in 1..Len(history[u]) :
         history[u][k].status \in {"success", "cancelled", "expired"} =>
           history'[u][k].status = history[u][k].status]_vars

(* C36: with no request in flight, every active history record carries    *)
(* the transaction id held in the slot, and a held slot has an active      *)
(* history record with its id.                                             *)
C36_ActiveRecordMatchesSlot ==
  InFlight = {} =>
    \A u \in Users :
      /\ \A k \in ActiveKeys(u) :
           history[u][k].transactionId = active[u].id
      /\ active[u] # NoTxn =>
           \E k \in ActiveKeys(u) :
             history[u][k].transactionId = active[u].id

(* C38: a cancelNumber whose status answer holds a code is refused, within *)
(* the window or after it: it writes nothing and credits nothing, and,     *)
(* when no other request ran in between, the slot still holds the rental,  *)
(* its history record is still active and the provider has received no     *)
(* cancel instruction for it.                                              *)
C38_RefusedCancelChangesNothing ==
  \A p \in Cancels :
    OtpMatch(p.data) =>
      /\ p.pc = "done" /\ p.result = "cannotCancel"
      /\ p.wrote = {}
      /\ p.debited = 0 /\ p.credited = 0
      /\ preempts = 0 =>
           LET k == HistoryKey(history[p.uid], p.id)
           IN /\ active[p.uid] = p.txn
              /\ k # 0 => history[p.uid][k].status = "active"
              /\ TxnOf(p.id) \notin provCancelled

C38_Witness ==
  \E p \in Cancels :
    /\ p.result = "cannotCancel"
    /\ p.timeElapsed > TTL
    /\ preempts = 0
    /\ active[p.uid].id = p.id
    /\ HistoryKey(history[p.uid], p.id) # 0

(* C39: a getNumber that ends for lack of funds, on a provider failure or  *)
(* on a provider timeout has not written the account's stored referrer,    *)
(* which is still the one the request loaded.                              *)
C39_FailedAcquireKeepsReferrer ==
  \A p \in GetNumbers :
    (p.pc = "done" /\ (p.result \in {"http402", "fail"} \/ TimedOut(p))) =>
      /\ "referredBy" \notin p.wrote
      /\ referredBy[p.uid] = p.userReferredBy

(* C40: a getNumber to which the provider issued a number ends with the    *)
(* account debited the final price, and answers success only with the slot *)
(* written.                                                                *)
C40_IssuedNumberIsRecorded ==
  \A p \in GetNumbers :
    (p.pc = "done" /\ p.id # "none") =>
      /\ p.debited = p.finalPrice
      /\ p.result = "ok" => "slot" \in p.wrote

----------------------------------------------------------------------------
(* Administration: POST /api/admin/addBalance and /api/admin/removeUser,   *)
(* interleaving freely with the rental requests of the account.            *)

(* What remains of a history record under a removed userHistory/<uid>: its *)
(* key is never reused, an update of it creates the fields it names.       *)
RemovedRecord ==
  [transactionId |-> "none", price |-> 0, commission |-> 0,
   resellerId |-> NoRef, status |-> "removed", otp |-> 0, refundAmount |-> 0]

(* The accounts a key or a token still resolves to.                        *)
Registered == {u \in Users : apiKey[u] # NoKey}

AdminAmounts == {0, 50}
MaxAdminRequests == 2   \* administrative requests received in one behaviour

(* POST /api/admin/addBalance: the amount is validated and the wallet read.*)
StartAddBalance(u, amount) ==
  /\ acctStarted < MaxAdminRequests
  /\ LET r == [AcctIdle EXCEPT !.kind = "addBalance", !.uid = u,
                               !.amount = amount]
     IN IF amount <= 0 THEN AcctLaunch(AcctDone(r, "http400"))
        ELSE AcctLaunch([r EXCEPT !.tmp = wallet[u] + amount,
                                  !.pc = "ab_setWallet"])
  /\ UNCHANGED <<rentalVars, apiKey, keysMade, apiKeyLogs, userResellerId,
                 adminVars>>

(* userRef.set(newBalance)                                                 *)
AddBalanceSetWallet(p) ==
  /\ p \in acct /\ p.pc = "ab_setWallet"
  /\ wallet' = [wallet EXCEPT ![p.uid] = p.tmp]
  /\ creditSum' = [creditSum EXCEPT ![p.uid] = @ + p.amount]
  /\ AcctSet(p, [p EXCEPT !.tmp = 0, !.pc = "ab_pushTxn",
                          !.wrote = @ \cup {"wallet"}])
  /\ UNCHANGED <<apiRequests, apiSuccess, apiFailed, totalSpent, referredBy,
                 active, history, resellers, resellerSales,
                 provVars, clockVars, started, req, cur, preempts, budget,
                 ghostVars, apiKey, keysMade, apiKeyLogs, userResellerId,
                 acctStarted, transactions, purged>>

(* transactions/<uid>.push().set({type: 'bonus', ...})                     *)
AddBalancePushTxn(p) ==
  /\ p \in acct /\ p.pc = "ab_pushTxn"
  /\ transactions' = [transactions EXCEPT ![p.uid] =
        Append(@, [type |-> "bonus", amount |-> p.amount])]
  /\ AcctSet(p, AcctDone([p EXCEPT !.wrote = @ \cup {"transactions"}], "ok"))
  /\ UNCHANGED <<rentalVars, apiKey, keysMade, apiKeyLogs, userResellerId,
                 acctStarted, creditSum, purged>>

(* POST /api/admin/removeUser: the five removals are issued together.      *)
StartRemoveUser(u) ==
  /\ acctStarted < MaxAdminRequests
  /\ AcctLaunch([AcctIdle EXCEPT !.kind = "removeUser", !.uid = u,
                                 !.pc = "ru_deleteAuth",
                                 !.wrote = {"users", "slot", "history",
                                            "apiKeyLogs", "transactions"}])
  /\ wallet' = [wallet EXCEPT ![u] = 0]
  /\ apiRequests' = [apiRequests EXCEPT ![u] = 0]
  /\ apiSuccess' = [apiSuccess EXCEPT ![u] = 0]
  /\ apiFailed' = [apiFailed EXCEPT ![u] = 0]
  /\ totalSpent' = [totalSpent EXCEPT ![u] = 0]
  /\ referredBy' = [referredBy EXCEPT ![u] = NoRef]
  /\ apiKey' = [apiKey EXCEPT ![u] = NoKey]
  /\ userResellerId' = [userResellerId EXCEPT ![u] = NoRef]
  /\ active' = [active EXCEPT ![u] = NoTxn]
  /\ history' = [history EXCEPT ![u] =
                   [k \in 1..Len(history[u]) |-> RemovedRecord]]
  /\ apiKeyLogs' = [apiKeyLogs EXCEPT ![u] = <<>>]
  /\ transactions' = [transactions EXCEPT ![u] = <<>>]
  /\ UNCHANGED <<resellers, resellerSales, provVars, clockVars, started, req,
                 cur, preempts, budget, ghostVars, keysMade, creditSum,
                 purged>>

(* admin.auth().deleteUser(userId), then the answer.                       *)
RemoveUserDeleteAuth(p) ==
  /\ p \in acct /\ p.pc = "ru_deleteAuth"
  /\ purged' = purged \cup {p.uid}
  /\ AcctSet(p, AcctDone(p, "ok"))
  /\ UNCHANGED <<rentalVars, apiKey, keysMade, apiKeyLogs, userResellerId,
                 acctStarted, transactions, creditSum>>

InitAdmin == InitWith(0, {"u0"}, {15}, {"active"}, {NoReseller})

NextAdmin ==
  \/ \E u \in Registered : StartGetNumber(u, "philippines_51", NoRef, NoRef)
  \/ \E p \in InFlight : GetNumberProvider(p)
  \/ \E p \in InFlight : DeductReadWallet(p)
  \/ \E p \in InFlight : DeductWriteWallet(p)
  \/ \E p \in InFlight : DeductWriteRequests(p)
  \/ \E p \in InFlight : DeductWriteSuccess(p)
  \/ \E p \in InFlight : DeductWriteSpent(p)
  \/ \E p \in InFlight : GetNumberSetActive(p)
  \/ \E p \in InFlight : GetNumberPushHistory(p)
  \/ \E u \in Registered, id \in PollIds : StartCancel(u, id)
  \/ \E p \in InFlight : CancelProvider(p)
  \/ \E p \in InFlight : CancelSetStatus(p)
  \/ \E p \in InFlight : RefundReadWallet(p)
  \/ \E p \in InFlight : RefundWriteWallet(p)
  \/ \E p \in InFlight : RefundWriteFailed(p)
  \/ \E p \in InFlight : CancelUpdate(p)
  \/ \E p \in InFlight : CancelRemove(p)
  \/ \E p \in InFlight : Respond(p)
  \/ \E u \in Registered, amount \in AdminAmounts : StartAddBalance(u, amount)
  \/ \E p \in acct : AddBalanceSetWallet(p)
  \/ \E p \in acct : AddBalancePushTxn(p)
  \/ \E u \in Registered : StartRemoveUser(u)
  \/ \E p \in acct : RemoveUserDeleteAuth(p)
  \/ \E p \in acct : AcctRespond(p)

SpecAdmin == InitAdmin /\ [][NextAdmin]_vars

(* C33: for an account whose removeUser has completed there is no account  *)
(* field, no slot, no history record and no credential-change log.         *)
C33_PurgeIsComplete ==
  \A u \in purged :
    /\ wallet[u] = 0 /\ totalSpent[u] = 0
    /\ apiRequests[u] = 0 /\ apiSuccess[u] = 0 /\ apiFailed[u] = 0
    /\ referredBy[u] = NoRef /\ apiKey[u] = NoKey
    /\ active[u] = NoTxn
    /\ \A k \in 1..Len(history[u]) : history[u][k] = RemovedRecord
    /\ apiKeyLogs[u] = <<>>

(* C37: with no request in flight, the wallet of an account is its initial *)
(* balance plus the amounts addBalance added, minus the amounts            *)
(* deductBalance took, plus the amounts refundBalance gave back, and       *)
(* totalSpent is the sum deductBalance took.                               *)
C37_LedgerConservation ==
  (InFlight = {} /\ acct = {}) =>
    \A u \in Registered :
      /\ wallet[u] = wallet0[u] + creditSum[u] - debitSum[u] + refundSum[u]
      /\ totalSpent[u] = debitSum[u]

====
